---------------------------- MODULE Spec2Model ----------------------------
(***************************************************************************)
(* Model of the video pipeline of lenilani-video-automation:               *)
(*   - VideoGenerator.generate_and_publish (src/workflows/video_generator) *)
(*   - Veo3Service.generate_multi_clip_video (the asyncio.gather fan-out)  *)
(*   - retry_until_success (create_video_with_retry.py)                    *)
(* A run of generate_and_publish is a coroutine; one action of the model   *)
(* is the segment of the coroutine that makes one collaborator call and    *)
(* runs the orchestrator code after it up to the next call.  Collaborator  *)
(* outcomes (a returned success flag, a raised exception, an error text)   *)
(* are inputs, drawn with \E.  Values of a reply are taken to have the     *)
(* type the collaborator documents when the key is present.                *)
(***************************************************************************)
EXTENDS Integers, Sequences, FiniteSets, TLC

(* ---------------------------- bounds ---------------------------------- *)
\* number of generate_and_publish coroutines that may be alive at once
MaxRuns == 2
\* largest value the wall clock (whole seconds) takes
MaxClock == 2
\* collaborator failures explored while two runs overlap
MaxFaults == 1
\* cap on the attempts of the unbounded loop of retry_until_success
MaxAttempts == 2

(* ------------------------ program constants --------------------------- *)
\* clip_prompts = [clip_1_prompt, clip_2_prompt, clip_3_prompt]
NumClips == 3
\* retry_interval = 3600
retry_interval == 3600

Runs == 1..MaxRuns
Clips == 1..NumClips
None == <<>>

\* str(e) of an exception raised by a provider (quota / anything else)
ProviderErrors == {"429 RESOURCE_EXHAUSTED quota", "connection reset"}
\* len(None) when the reply has no clip_k_prompt key
NoneHasNoLen == "object of type 'NoneType' has no len()"

\* A text is the sequence of the fragments an f-string joins; str(i):
Str(i) == <<"0", "1", "2", "3", "4", "5", "6", "7", "8", "9">>[i + 1]

(* ------------------------------ paths --------------------------------- *)
\* A path is <<name, clip index or 0, timestamp or 0>>: the parts of the
\* f-string that builds it.
ClipPath(i) == <<"clip", i, 0>>
TitleCardPath(ts) == <<"title_card", 0, ts>>
VoiceoverPath(ts) == <<"voiceover", 0, ts>>
MusicPath(ts) == <<"music", 0, ts>>
FinalVideoPath(ts) == <<"final_video", 0, ts>>
ConcatFile == <<"concat_list", 0, 0>>
TitleCardVideo == <<"title_card_video", 0, 0>>
VideoNoAudio == <<"video_no_audio", 0, 0>>

(* --------------------------- collaborators ---------------------------- *)
\* the order in which generate_and_publish reaches its collaborators
StageOrder ==
  << "research_trending_topics", "select_video_topic",
     "generate_video_prompts", "generate_multi_clip_video",
     "generate_title_card_prompt", "generate_image",
     "generate_voiceover_script", "generate_voiceover",
     "generate_music_prompt", "generate_background_music",
     "compose_final_video", "merge_clips",
     "upload_video", "upload_and_publish_to_youtube" >>

Collaborators == {StageOrder[k] : k \in 1..Len(StageOrder)}

Rank(c) == CHOOSE k \in 1..Len(StageOrder) : StageOrder[k] = c

VARIABLES
  run,      \* run[r]: the locals of the r-th generate_and_publish coroutine
  wrote,    \* set of <<path, r>>: run r has written the file at path
  clock,    \* datetime.utcnow(), whole seconds
  hubspot,  \* settings.hubspot_access_token is set
  retry,    \* the locals of retry_until_success
  call      \* the locals of one call of a helper examined on its own

vars == <<run, wrote, clock, hubspot, retry, call>>

EmptyReport ==
  [ keys |-> {}, success |-> FALSE, errors |-> None, message |-> None,
    topic |-> None, clip_paths |-> None, title_card_path |-> None,
    final_video_path |-> None, google_drive_url |-> None,
    youtube_url |-> None ]

NoArgs ==
  [ clip_paths |-> None, title_card_image_path |-> None, output_path |-> None,
    voiceover_audio_path |-> None, music_audio_path |-> None ]

\* upload_and_publish_to_youtube has not been called
NoPublish ==
  [success |-> FALSE, steps |-> <<>>, returned |-> <<>>, file_url |-> None,
   message |-> None]

\* a coroutine that has not been called
IdleRun ==
  [ pc |-> "idle", topic |-> FALSE, publish |-> FALSE,
    selected_topic |-> None, timestamp |-> 0,
    clip |-> [i \in Clips |-> "idle"], finished |-> <<>>,
    clip_message |-> [i \in Clips |-> None],
    clips_result |-> [keys |-> {}, success |-> FALSE, error |-> None,
                      message |-> None, clip_paths |-> None],
    clip_paths |-> None, title_card_path |-> None,
    voiceover_path |-> None, music_path |-> None,
    compose_args |-> NoArgs, final_video_path |-> None,
    google_drive_url |-> None, youtube_url |-> None,
    youtube_result |-> NoPublish,
    errors |-> <<>>, calls |-> <<>>,
    results |-> [c \in Collaborators |-> "none"],
    report |-> EmptyReport ]

\* generate_and_publish(topic, category, publish_immediately) is called
StartedRun(t, p) == [IdleRun EXCEPT !.pc = "start", !.topic = t, !.publish = p]

\* no helper is being examined on its own
NoCall == [fn |-> "none"]

\* retry_until_success has not been called
RetryOff == [pc |-> "off", retry_count |-> 0, waited |-> <<>>,
             rate_limited |-> <<>>, result |-> EmptyReport]

(* ------------------ results a failed run returns ---------------------- *)
\* return {"success": False, "errors": errors, "message": ...}
FailReport(errs, msg) ==
  [EmptyReport EXCEPT !.keys = {"success", "errors", "message"},
                      !.errors = errs, !.message = msg]

\* the call of collaborator c is recorded, with what came back
Returned(s, c, outcome) ==
  [s EXCEPT !.calls = Append(@, c), !.results[c] = outcome]

\* Caught without the except branch: the coroutine ends with the exception,
\* no report is returned
Propagated(s, text) == [s EXCEPT !.pc = "done"]

\* Caught that returns the failure report without errors.append(str(e))
CaughtSilently(s, text) ==
  [s EXCEPT !.pc = "done",
            !.report = FailReport(s.errors, <<"Workflow failed: ", text>>)]

\* except Exception as e: errors.append(str(e)); return {...}
Caught(s, text) ==
  LET errs == Append(s.errors, <<text>>)
  IN [s EXCEPT !.pc = "done", !.errors = errs,
               !.report = FailReport(errs, <<"Workflow failed: ", text>>)]

\* collaborator c raised an exception whose str() is text
Raised(s, c, text) == Caught(Returned(s, c, "raise"), text)

(* ----------------- bound on failures of overlapping runs -------------- *)
Alive == {r \in Runs : run[r].pc \notin {"idle", "done"}}
Called == {r \in Runs : run[r].pc # "idle"}

FaultCount(s) ==
  Cardinality({c \in Collaborators : s.results[c] \in {"fail", "raise"}})
  + (IF s.pc = "gather"
       THEN Cardinality({i \in Clips : s.clip[i] = "fail"}) ELSE 0)

SumFaults[rs \in SUBSET Runs] ==
  IF rs = {} THEN 0
  ELSE LET r == CHOOSE x \in rs : TRUE
       IN FaultCount(run[r]) + SumFaults[rs \ {r}]

\* a single run may fail anywhere; overlapping runs share MaxFaults failures
MayFail == Cardinality(Called) <= 1 \/ SumFaults[Runs] < MaxFaults

(* --------------------- Step 1: topic selection ------------------------ *)
\* raise ValueError(f"Could not parse JSON from Claude response: ...")
ParseError == "Could not parse JSON from Claude response"
TextErrors == ProviderErrors \cup {ParseError}
\* selection.get("selected_topic", "AI for Hawaii Businesses")
DefaultTopic == <<"AI for Hawaii Businesses">>

\* TopicFailed with a fallback: the default topic, and on to the prompts
TopicFallsBack(s, c, e) ==
  [Returned(s, c, "raise") EXCEPT !.pc = "prompts",
                                  !.selected_topic = DefaultTopic]

\* research_trending_topics and select_video_topic re-raise; nothing in
\* Step 1 catches, so the handler of the whole workflow returns the failure
TopicFailed(s, c, e) == Raised(s, c, e)

\* topics = await claude_service.research_trending_topics(focus_area=category)
Research(r) ==
  LET s == run[r] IN
  /\ s.pc = "start" /\ ~s.topic
  /\ \/ run' = [run EXCEPT ![r] =
                  [Returned(s, "research_trending_topics", "ok")
                     EXCEPT !.pc = "select"]]
     \/ /\ MayFail
        /\ \E e \in TextErrors :
             run' = [run EXCEPT ![r] =
                       TopicFailed(s, "research_trending_topics", e)]
  /\ UNCHANGED <<wrote, clock, hubspot, retry, call>>

\* selection = await claude_service.select_video_topic(...)
\* selected_topic = selection.get("selected_topic", "AI for Hawaii Businesses")
SelectedTopic(hasKey) == IF hasKey THEN <<"topic of the reply">> ELSE DefaultTopic

Select(r) ==
  LET s == run[r] IN
  /\ s.pc = "select"
  /\ \/ \E hasKey \in BOOLEAN :
          run' = [run EXCEPT ![r] =
                    [Returned(s, "select_video_topic", "ok")
                       EXCEPT !.pc = "prompts",
                              !.selected_topic = SelectedTopic(hasKey)]]
     \/ /\ MayFail
        /\ \E e \in TextErrors :
             run' = [run EXCEPT ![r] = TopicFailed(s, "select_video_topic", e)]
  /\ UNCHANGED <<wrote, clock, hubspot, retry, call>>

(* ------------------ Step 2: cinematic video prompts ------------------- *)
\* the topic the prompts are generated for
TopicFor(s) == IF s.topic THEN <<"topic of the caller">> ELSE s.selected_topic

\* video_prompts = await claude_service.generate_video_prompts(...)
\* len(clip_k_prompt); timestamp = int(datetime.utcnow().timestamp())
Prompts(r) ==
  LET s == [run[r] EXCEPT !.selected_topic = TopicFor(run[r])] IN
  /\ \/ s.pc = "start" /\ s.topic
     \/ s.pc = "prompts"
  /\ \/ \E t \in clock..MaxClock :
          /\ run' = [run EXCEPT ![r] =
                       [Returned(s, "generate_video_prompts", "ok")
                          EXCEPT !.pc = "clips", !.timestamp = t]]
          /\ clock' = t
     \/ /\ MayFail
        /\ \/ \E e \in TextErrors :
                run' = [run EXCEPT ![r] = Raised(s, "generate_video_prompts", e)]
           \* the reply parses but has no clip_k_prompt: len(None) raises
           \/ run' = [run EXCEPT ![r] =
                        Caught(Returned(s, "generate_video_prompts", "fail"),
                               NoneHasNoLen)]
        /\ clock' = clock
  /\ UNCHANGED <<wrote, hubspot, retry, call>>

(* ------------- Step 3: the clips, asyncio.gather fan-out -------------- *)
\* tasks.append(self.generate_video_clip(...)); results = await gather(*tasks)
\* every task runs to its first suspension before any of them finishes
StartClips(r) ==
  LET s == run[r] IN
  /\ s.pc = "clips"
  /\ run' = [run EXCEPT ![r] =
               [s EXCEPT !.pc = "gather",
                         !.calls = Append(@, "generate_multi_clip_video"),
                         !.clip = [i \in Clips |-> "running"]]]
  /\ UNCHANGED <<wrote, clock, hubspot, retry, call>>

\* one generate_video_clip task returns: the file is written and
\* {"success": True, "output_path": ...}, or {"success": False, "message": ...}
FinishClip(r, i) ==
  LET s == run[r] IN
  /\ s.clip[i] = "running"
  /\ \/ /\ run' = [run EXCEPT ![r] =
                     [s EXCEPT !.clip[i] = "ok", !.finished = Append(@, i)]]
        /\ wrote' = wrote \cup {<<ClipPath(i), r>>}
     \/ /\ MayFail
        /\ \E e \in ProviderErrors :
             run' = [run EXCEPT ![r] =
                       [s EXCEPT !.clip[i] = "fail",
                                 !.finished = Append(@, i),
                                 !.clip_message[i] =
                                   <<"Video generation failed after 3 attempts: ", e>>]]
        /\ wrote' = wrote
  /\ UNCHANGED <<clock, hubspot, retry, call>>

\* JoinReady of a wait that returns with the first finished task
JoinReadyAny(s) == \E i \in Clips : s.clip[i] \in {"ok", "fail"}

\* asyncio.gather(*tasks) resumes its awaiter when every task is done
JoinReady(s) == \A i \in Clips : s.clip[i] \in {"ok", "fail"}

\* ClipPathsOf with the results in the order the tasks finished
ClipPathsInCompletionOrder(s) ==
  [k \in 1..Len(s.finished) |-> ClipPath(s.finished[k])]

\* results is in the order of the tasks: clip_paths.append(result["output_path"])
ClipPathsOf(s) == [i \in Clips |-> ClipPath(i)]

FailedClips(s) == {i \in Clips : s.clip[i] = "fail"}

\* MultiClipResult that skips a failed clip instead of returning
MultiClipResultPartial(s) ==
  [keys |-> {"success", "clip_paths", "num_clips"}, success |-> TRUE,
   error |-> None, message |-> None,
   clip_paths |-> SelectSeq(ClipPathsOf(s), LAMBDA p : s.clip[p[2]] = "ok")]

\* the loop over results: the first failed clip returns the failure
MultiClipResult(s) ==
  IF FailedClips(s) = {}
    THEN [keys |-> {"success", "clip_paths", "num_clips"}, success |-> TRUE,
          error |-> None, message |-> None, clip_paths |-> ClipPathsOf(s)]
    ELSE LET i == CHOOSE j \in FailedClips(s) :
                    \A k \in FailedClips(s) : j <= k
         IN [keys |-> {"success", "error", "message"}, success |-> FALSE,
             error |-> <<"Clip ", Str(i), " generation failed">>,
             message |-> s.clip_message[i], clip_paths |-> None]

\* AfterClips without the return of the failure branch
AfterClipsNoReturn(s, res) ==
  [s EXCEPT !.pc = "title_prompt", !.clips_result = res,
            !.results["generate_multi_clip_video"] =
              IF res.success THEN "ok" ELSE "fail",
            !.errors = IF res.success THEN @
                       ELSE Append(@, <<"Video generation: ">> \o res.error),
            !.clip_paths = res.clip_paths]

\* if not clips_result.get("success"): errors.append(...); return {...}
\* clip_paths = clips_result.get("clip_paths", [])
AfterClips(s, res) ==
  LET errs == Append(s.errors, <<"Video generation: ">> \o res.error)
  IN IF res.success
       THEN [s EXCEPT !.pc = "title_prompt", !.clips_result = res,
                      !.results["generate_multi_clip_video"] = "ok",
                      !.clip_paths = res.clip_paths]
       ELSE [s EXCEPT !.pc = "done", !.clips_result = res,
                      !.results["generate_multi_clip_video"] = "fail",
                      !.errors = errs,
                      !.report = FailReport(errs, <<"Video generation failed">>)]

\* generate_multi_clip_video returns to generate_and_publish
Join(r) ==
  LET s == run[r] IN
  /\ s.pc = "gather"
  /\ JoinReady(s)
  /\ run' = [run EXCEPT ![r] = AfterClips(s, MultiClipResult(s))]
  /\ UNCHANGED <<wrote, clock, hubspot, retry, call>>

(* ---------------------- Step 4: the title card ------------------------ *)
\* title_card_prompt = await claude_service.generate_title_card_prompt(...)
TitlePrompt(r) ==
  LET s == [run[r] EXCEPT !.finished = <<>>] IN
  /\ s.pc = "title_prompt"
  /\ \/ run' = [run EXCEPT ![r] =
                  [Returned(s, "generate_title_card_prompt", "ok")
                     EXCEPT !.pc = "image"]]
     \/ /\ MayFail
        /\ \E e \in ProviderErrors :
             run' = [run EXCEPT ![r] =
                       Raised(s, "generate_title_card_prompt", e)]
  /\ UNCHANGED <<wrote, clock, hubspot, retry, call>>

\* FailedArtifact without the assignment of None
KeptArtifact(path) == path

\* what the orchestrator keeps of an optional stage that failed
FailedArtifact(path) == None

\* title_card_result = await google_image_service.generate_image(...)
Image(r) ==
  LET s == run[r] IN
  /\ s.pc = "image"
  /\ \/ /\ run' = [run EXCEPT ![r] =
                     [Returned(s, "generate_image", "ok")
                        EXCEPT !.pc = "vo_script",
                               !.title_card_path = TitleCardPath(s.timestamp)]]
        /\ wrote' = wrote \cup {<<TitleCardPath(s.timestamp), r>>}
     \/ /\ MayFail
        /\ \E e \in ProviderErrors :
             run' = [run EXCEPT ![r] =
                       [Returned(s, "generate_image", "fail")
                          EXCEPT !.pc = "vo_script",
                                 !.errors = Append(@, <<"Title card: ", e>>),
                                 !.title_card_path =
                                   FailedArtifact(TitleCardPath(s.timestamp))]]
        /\ wrote' = wrote
  /\ UNCHANGED <<clock, hubspot, retry, call>>

(* ----------------------- Step 5: the voiceover ------------------------ *)
\* voiceover_script = await elevenlabs_service.generate_voiceover_script(...)
VoScript(r) ==
  LET s == run[r] IN
  /\ s.pc = "vo_script"
  /\ \/ run' = [run EXCEPT ![r] =
                  [Returned(s, "generate_voiceover_script", "ok")
                     EXCEPT !.pc = "voiceover"]]
     \/ /\ MayFail
        /\ \E e \in ProviderErrors :
             run' = [run EXCEPT ![r] =
                       Raised(s, "generate_voiceover_script", e)]
  /\ UNCHANGED <<wrote, clock, hubspot, retry, call>>

\* voiceover_result = await elevenlabs_service.generate_voiceover(...)
Voiceover(r) ==
  LET s == run[r] IN
  /\ s.pc = "voiceover"
  /\ \/ /\ run' = [run EXCEPT ![r] =
                     [Returned(s, "generate_voiceover", "ok")
                        EXCEPT !.pc = "music_prompt",
                               !.voiceover_path = VoiceoverPath(s.timestamp)]]
        /\ wrote' = wrote \cup {<<VoiceoverPath(s.timestamp), r>>}
     \/ /\ MayFail
        /\ \E e \in ProviderErrors :
             run' = [run EXCEPT ![r] =
                       [Returned(s, "generate_voiceover", "fail")
                          EXCEPT !.pc = "music_prompt",
                                 !.errors = Append(@, <<"Voiceover: ", e>>),
                                 !.voiceover_path =
                                   FailedArtifact(VoiceoverPath(s.timestamp))]]
        /\ wrote' = wrote
  /\ UNCHANGED <<clock, hubspot, retry, call>>

(* -------------------- Step 6: the background music -------------------- *)
\* music_prompt_text = await elevenlabs_service.generate_music_prompt(...)
\* an exception inside it is caught there and a generic prompt returned
MusicPrompt(r) ==
  LET s == run[r] IN
  /\ s.pc = "music_prompt"
  /\ \E fallback \in BOOLEAN :
       run' = [run EXCEPT ![r] =
                 [Returned(s, "generate_music_prompt", "ok")
                    EXCEPT !.pc = "music"]]
  /\ UNCHANGED <<wrote, clock, hubspot, retry, call>>

\* music_result = await elevenlabs_service.generate_background_music(...)
Music(r) ==
  LET s == run[r] IN
  /\ s.pc = "music"
  /\ \/ /\ run' = [run EXCEPT ![r] =
                     [Returned(s, "generate_background_music", "ok")
                        EXCEPT !.pc = "compose",
                               !.music_path = MusicPath(s.timestamp)]]
        /\ wrote' = wrote \cup {<<MusicPath(s.timestamp), r>>}
     \/ /\ MayFail
        /\ \E e \in ProviderErrors :
             run' = [run EXCEPT ![r] =
                       [Returned(s, "generate_background_music", "fail")
                          EXCEPT !.pc = "compose",
                                 !.errors = Append(@, <<"Background music: ", e>>),
                                 !.music_path =
                                   FailedArtifact(MusicPath(s.timestamp))]]
        /\ wrote' = wrote
  /\ UNCHANGED <<clock, hubspot, retry, call>>

(* ------------------------ Step 7: composition ------------------------- *)
\* the files that exist on disk
Files == {w[1] : w \in wrote}

Range(q) == {q[k] : k \in 1..Len(q)}

\* VideoComposer.merge_clips(clip_paths, output_path): every clip must exist,
\* the concat list is written, then ffmpeg writes output_path or fails
MergeClips(clips, out, files, ffmpeg_ok) ==
  IF ~(Range(clips) \subseteq files)
    THEN [success |-> FALSE, error |-> <<"Clip not found">>,
          output_path |-> None, writes |-> {}]
  ELSE IF ffmpeg_ok
    THEN [success |-> TRUE, error |-> None, output_path |-> out,
          writes |-> {ConcatFile, out}]
    ELSE [success |-> FALSE, error |-> <<"FFmpeg failed: ", "Invalid data">>,
          output_path |-> None, writes |-> {ConcatFile}]

\* all_clips: the converted title card if there is one, then clip_paths
SegmentsTitleLast(title_ok, clip_paths) ==
  clip_paths \o (IF title_ok THEN <<TitleCardVideo>> ELSE <<>>)

\* all_clips.append(title_card_video); all_clips.extend(clip_paths)
Segments(title_ok, clip_paths) ==
  (IF title_ok THEN <<TitleCardVideo>> ELSE <<>>) \o clip_paths

\* what compose_final_video returns, with what it did on the way: the
\* segments it joined, whether merge_clips was invoked, the audio files mixed
\* into the output, the files written
Composed(success, error, out, segments, merged, mixed, writes) ==
  [success |-> success, error |-> error, output_path |-> out,
   segments |-> segments, merge_invoked |-> merged, mix_inputs |-> mixed,
   writes |-> writes]

\* add_audio_to_video(video, voiceover, output, music_path=...): the music is
\* an input of the mix when music_path is given and the file exists
MixInputs(voice, music, files) ==
  {voice} \cup (IF music # None /\ music \in files THEN {music} ELSE {})

\* AfterMixFailed that hands the failed audio_result to the caller
AfterMixFailedReturns(video) ==
  [video EXCEPT !.success = FALSE, !.error = <<"FFmpeg failed: ", "Invalid data">>,
                !.output_path = None]

\* "Voiceover mixing failed, using video without voiceover":
\* shutil.copy(video_only_path, output_path), then the success return
AfterMixFailed(video) == video

\* VideoComposer.compose_final_video(...) on the files that exist: env says
\* which of the ffmpeg invocations (title card conversion, merge, audio mix)
\* exit zero
ComposeFinalVideoOn(a, env, files) ==
  LET has_title == a.title_card_image_path # None
                   /\ a.title_card_image_path \in files
      title_ok == has_title /\ env.title_conv
      title_writes == IF title_ok THEN {TitleCardVideo} ELSE {}
      all_clips == Segments(title_ok, a.clip_paths)
      video_only_path == IF a.voiceover_audio_path = None
                           THEN a.output_path ELSE VideoNoAudio
      merge_result ==
        IF Len(all_clips) = 1
          THEN IF all_clips[1] \in files \cup title_writes
                 THEN [success |-> TRUE, error |-> None,
                       output_path |-> video_only_path,
                       writes |-> {video_only_path}]
                 ELSE [success |-> FALSE,
                       error |-> <<"No such file or directory">>,
                       output_path |-> None, writes |-> {}]
          ELSE MergeClips(all_clips, video_only_path,
                          files \cup title_writes, env.merge)
      has_voice == a.voiceover_audio_path # None
                   /\ a.voiceover_audio_path \in files
      video == Composed(TRUE, None, a.output_path, all_clips,
                        Len(all_clips) > 1, {},
                        title_writes \cup merge_result.writes
                          \cup (IF has_voice THEN {a.output_path} ELSE {}))
  IN IF Len(all_clips) = 0
       THEN Composed(FALSE, <<"No clips available for composition">>, None,
                     all_clips, FALSE, {}, title_writes)
     ELSE IF ~merge_result.success
       THEN Composed(FALSE, merge_result.error, None, all_clips,
                     Len(all_clips) > 1, {},
                     merge_result.writes \cup title_writes)
     ELSE IF has_voice
       THEN IF env.mix
              THEN [video EXCEPT !.mix_inputs =
                      MixInputs(a.voiceover_audio_path, a.music_audio_path,
                                files)]
              ELSE AfterMixFailed(video)
     ELSE video

\* compose_final_video on the files the runs have written so far
ComposeFinalVideo(a, env) == ComposeFinalVideoOn(a, env, Files)

ComposeEnvs == [title_conv : BOOLEAN, merge : BOOLEAN, mix : BOOLEAN]

\* return {"success": True, "topic": ..., ...}
SuccessReport(s) ==
  [ keys |-> {"success", "topic", "service_focus", "clip_paths",
              "title_card_path", "final_video_path", "captions",
              "google_drive_url", "youtube_url", "timestamp", "errors"},
    success |-> TRUE, errors |-> s.errors, message |-> None,
    topic |-> s.selected_topic, clip_paths |-> s.clip_paths,
    title_card_path |-> s.title_card_path,
    final_video_path |-> s.final_video_path,
    google_drive_url |-> IF s.publish THEN s.google_drive_url ELSE None,
    youtube_url |-> IF s.publish THEN s.youtube_url ELSE None ]

Finish(s) == [s EXCEPT !.pc = "done", !.report = SuccessReport(s)]

\* Step 9 is reached if publish_immediately and settings.hubspot_access_token
AfterUpload(s) ==
  IF s.publish /\ hubspot THEN [s EXCEPT !.pc = "youtube"] ELSE Finish(s)

\* AfterComposition that uploads whether or not publish_immediately is set
AfterCompositionUngated(s, out) ==
  [s EXCEPT !.final_video_path = out, !.pc = "upload"]

\* Step 8 is reached if publish_immediately
AfterComposition(s, out) ==
  LET t == [s EXCEPT !.final_video_path = out]
  IN IF t.publish THEN [t EXCEPT !.pc = "upload"] ELSE AfterUpload(t)

\* CompositionError that leaves errors as it was
CompositionErrorDropped(errors, res) == errors

\* errors.append(f"Video composition: {error_msg}")
CompositionError(errors, res) ==
  Append(errors, <<"Video composition: ">> \o res.error)

\* composition_result = await video_composer.compose_final_video(...)
Compose(r) ==
  LET s == run[r]
      a == [ clip_paths |-> s.clip_paths,
             title_card_image_path |-> s.title_card_path,
             output_path |-> FinalVideoPath(s.timestamp),
             voiceover_audio_path |-> s.voiceover_path,
             music_audio_path |-> s.music_path ]
  IN
  /\ s.pc = "compose"
  /\ \E env \in ComposeEnvs :
       LET res == ComposeFinalVideo(a, env)
           c == [s EXCEPT !.compose_args = a]
           errs == CompositionError(s.errors, res)
       IN /\ res.success \/ MayFail
          /\ wrote' = wrote \cup {<<p, r>> : p \in res.writes}
          /\ run' = [run EXCEPT ![r] =
               IF res.success
                 THEN AfterComposition(
                        Returned(c, "compose_final_video", "ok"),
                        res.output_path)
               ELSE IF s.clip_paths # <<>>
                 THEN [Returned(c, "compose_final_video", "fail")
                         EXCEPT !.pc = "merge", !.errors = errs]
               ELSE [Returned(c, "compose_final_video", "fail")
                       EXCEPT !.pc = "done", !.errors = errs,
                              !.report = FailReport(errs,
                                <<"Video composition failed and no fallback available">>)]]
  /\ UNCHANGED <<clock, hubspot, retry, call>>

\* FallbackFailed without the return: the run goes on to publish
FallbackIgnored(s) ==
  AfterComposition(Returned(s, "merge_clips", "fail"),
                   FinalVideoPath(s.timestamp))

\* if not composition_result.get("success"): return {"success": False, ...}
FallbackFailed(s) ==
  [Returned(s, "merge_clips", "fail")
     EXCEPT !.pc = "done",
            !.report = FailReport(s.errors, <<"Video composition failed">>)]

\* composition_result = await video_composer.merge_clips(clip_paths, final_video_path)
Merge(r) ==
  LET s == run[r] IN
  /\ s.pc = "merge"
  /\ \E ffmpeg_ok \in BOOLEAN :
       LET res == MergeClips(s.clip_paths, FinalVideoPath(s.timestamp),
                             Files, ffmpeg_ok)
       IN /\ res.success \/ MayFail
          /\ wrote' = wrote \cup {<<p, r>> : p \in res.writes}
          /\ run' = [run EXCEPT ![r] =
               IF res.success
                 THEN AfterComposition(Returned(s, "merge_clips", "ok"),
                                       res.output_path)
                 ELSE FallbackFailed(s)]
  /\ UNCHANGED <<clock, hubspot, retry, call>>

(* --------------- upload_video (google_drive_uploader.py) -------------- *)
\* google_drive_paths with every entry a Path object
AllPathObjects == <<"Path", "Path", "Path", "Path", "Path", "Path">>

\* google_drive_paths: four Path objects, then two plain strings
google_drive_paths == <<"Path", "Path", "Path", "Path", "str", "str">>

VideoNotFound == "Video not found: "
StrHasNoExists == "'str' object has no attribute 'exists'"
CopyError == "No space left on device"

NoUpload ==
  [keys |-> {}, success |-> FALSE, url |-> None, error |-> "", message |-> None]

\* except Exception as e: return {"success": False, "error": str(e), ...}
UploadFailure(text) ==
  [keys |-> {"success", "platform", "error", "message"}, success |-> FALSE,
   url |-> None, error |-> text,
   message |-> <<"Google Drive upload failed: ", text>>]

\* the loop over google_drive_paths from entry k on: path.exists() of a str
\* raises AttributeError, of a Path that exists ends the loop
RECURSIVE FindDrive(_, _)
FindDrive(exists, k) ==
  IF k > Len(google_drive_paths) THEN [kind |-> "none", index |-> 0]
  ELSE IF google_drive_paths[k] = "str" THEN [kind |-> "raise", index |-> k]
  ELSE IF exists[k] THEN [kind |-> "found", index |-> k]
  ELSE FindDrive(exists, k + 1)

\* if not drive_path: copy to /tmp/ai_generated_videos, no "url" in the result
\* else: copy to the folder of the drive, "url": "Google Drive: <folder>/..."
SaveVideo(drive, copy_ok, title) ==
  IF ~copy_ok THEN UploadFailure(CopyError)
  ELSE IF drive.kind = "none"
    THEN [keys |-> {"success", "platform", "path", "message"},
          success |-> TRUE, url |-> None, error |-> "",
          message |-> <<"Video saved locally (Google Drive not found): ">>]
  ELSE [keys |-> {"success", "platform", "path", "url", "message"},
        success |-> TRUE,
        url |-> <<"Google Drive: AI Generated Videos/">> \o title,
        error |-> "",
        message |-> <<"Video uploaded to Google Drive successfully">>]

\* upload_video from its call to its return
UploadVideo(env, title) ==
  IF ~env.video THEN UploadFailure(VideoNotFound)
  ELSE LET d == FindDrive(env.exists, 1)
       IN IF d.kind = "raise" THEN UploadFailure(StrHasNoExists)
          ELSE SaveVideo(d, env.copy, title)

\* the file system as upload_video finds it: the video, each entry of
\* google_drive_paths, and whether shutil.copy goes through
UploadEnvs ==
  [video : BOOLEAN, exists : [1..Len(google_drive_paths) -> BOOLEAN],
   copy : BOOLEAN]

(* ----------------------- Steps 8 and 9: publish ----------------------- *)
\* upload_result = await google_drive_uploader.upload_video(...)
\* if upload_result.get("success"): google_drive_url = upload_result.get("url")
\* else: errors.append(f"Google Drive upload: {upload_result.get('message')}")
Upload(r) ==
  LET s == run[r] IN
  /\ s.pc = "upload"
  /\ \E res \in {UploadVideo(env, s.selected_topic) : env \in UploadEnvs} :
       /\ res.success \/ MayFail
       /\ run' = [run EXCEPT ![r] =
            AfterUpload(
              IF res.success
                THEN [Returned(s, "upload_video", "ok")
                        EXCEPT !.google_drive_url = res.url]
                ELSE [Returned(s, "upload_video", "fail")
                        EXCEPT !.errors = Append(@,
                          <<"Google Drive upload: ">> \o res.message)])]
  /\ UNCHANGED <<wrote, clock, hubspot, retry, call>>

(* ------- upload_and_publish_to_youtube (hubspot_client.py) ------------ *)
\* the three steps of the workflow, in the order of the code
HubSpotSteps ==
  << "upload_video_to_file_manager", "get_connected_youtube_channel",
     "create_social_post_to_youtube" >>

\* what HubSpot does to the three requests: the upload and the post succeed
\* or fail with an error text; the channel lookup also may find no channel
HubSpotEnvs ==
  [upload : {"ok", "fail"}, channel : {"ok", "none", "fail"},
   post : {"ok", "fail"}, error : ProviderErrors]

\* result.get('url') of the uploaded file
HubSpotFileUrl == <<"HubSpot file url">>

\* ChannelFound that takes the lookup to have succeeded
ChannelAssumed(env) == TRUE

\* channel_result.get("success")
ChannelFound(env) == env.channel = "ok"

\* HubSpotService.upload_and_publish_to_youtube(...): steps are the steps it
\* ran, returned their success flags; file_url is None when the result has
\* no such key
UploadAndPublishToYouTube(env) ==
  IF env.upload # "ok"
    THEN [success |-> FALSE, steps |-> SubSeq(HubSpotSteps, 1, 1),
          returned |-> <<FALSE>>, file_url |-> None,
          message |-> <<"HubSpot upload failed: ", env.error>>]
  ELSE IF ~ChannelFound(env)
    THEN [success |-> FALSE, steps |-> SubSeq(HubSpotSteps, 1, 2),
          returned |-> <<TRUE, FALSE>>, file_url |-> None,
          message |-> IF env.channel = "fail"
                        THEN <<"Failed to fetch YouTube channel: ", env.error>>
                        ELSE <<"No YouTube channel connected to HubSpot">>]
  ELSE IF env.post # "ok"
    THEN [success |-> FALSE, steps |-> HubSpotSteps,
          returned |-> <<TRUE, env.channel = "ok", FALSE>>,
          file_url |-> HubSpotFileUrl,
          message |-> <<"Video uploaded but YouTube post failed: ",
                        "YouTube post creation failed: ", env.error>>]
  ELSE [success |-> TRUE, steps |-> HubSpotSteps,
        returned |-> <<TRUE, env.channel = "ok", TRUE>>,
        file_url |-> HubSpotFileUrl,
        message |-> <<"Video uploaded and published to YouTube via HubSpot successfully">>]

\* youtube_result = await hubspot_service.upload_and_publish_to_youtube(...)
\* if youtube_result.get("success"): youtube_url = youtube_result.get("file_url")
\* else: errors.append(f"YouTube publishing: {youtube_result.get('message')}")
YouTube(r) ==
  LET s == run[r] IN
  /\ s.pc = "youtube"
  /\ \E res \in {UploadAndPublishToYouTube(env) : env \in HubSpotEnvs} :
       /\ res.success \/ MayFail
       /\ run' = [run EXCEPT ![r] =
            Finish(
              IF res.success
                THEN [Returned(s, "upload_and_publish_to_youtube", "ok")
                        EXCEPT !.youtube_result = res,
                               !.youtube_url = res.file_url]
                ELSE [Returned(s, "upload_and_publish_to_youtube", "fail")
                        EXCEPT !.youtube_result = res,
                               !.errors = Append(@,
                                 <<"YouTube publishing: ">> \o res.message)])]
  /\ UNCHANGED <<wrote, clock, hubspot, retry, call>>

(* ------------------------- one run, started --------------------------- *)
Step(r) ==
  \/ Research(r) \/ Select(r) \/ Prompts(r)
  \/ StartClips(r) \/ (\E i \in Clips : FinishClip(r, i)) \/ Join(r)
  \/ TitlePrompt(r) \/ Image(r) \/ VoScript(r) \/ Voiceover(r)
  \/ MusicPrompt(r) \/ Music(r) \/ Compose(r) \/ Merge(r)
  \/ Upload(r) \/ YouTube(r)

\* one call of generate_and_publish, any arguments, any configuration
Init ==
  /\ \E t \in BOOLEAN, p \in BOOLEAN :
       run = [r \in Runs |-> IF r = 1 THEN StartedRun(t, p) ELSE IdleRun]
  /\ wrote = {}
  /\ clock = 1
  /\ hubspot \in BOOLEAN
  /\ retry = RetryOff
  /\ call = NoCall

Next == Step(1)

Spec == Init /\ [][Next]_vars

(* --------------- two overlapping HTTP requests (api/index.py) --------- *)
\* POST /cron/daily-video twice: generate_and_publish(None, None, True)
InitConc ==
  /\ run = [r \in Runs |-> StartedRun(FALSE, TRUE)]
  /\ wrote = {}
  /\ clock = 1
  /\ hubspot = TRUE
  /\ retry = RetryOff
  /\ call = NoCall

NextConc == \E r \in Runs : Step(r)

SpecConc == InitConc /\ [][NextConc]_vars

(* ------------- retry_until_success (create_video_with_retry.py) ------- *)
\* the fragments of the model's texts in which str(result).lower() has one of
\* "429", "resource_exhausted", "quota", "rate limit", "too many requests"
IndicatorFragments == {"429 RESOURCE_EXHAUSTED quota"}

\* every text of the result dictionary, as str(result) prints them
ResultTexts(rep) ==
  UNION {Range(rep.errors[k]) : k \in 1..Len(rep.errors)} \cup Range(rep.message)

is_rate_limit_error(rep) == ResultTexts(rep) \cap IndicatorFragments # {}

\* SleepFor that waits only for a rate limit
SleepForRateLimitOnly(rate_limited) == IF rate_limited THEN retry_interval ELSE 0

\* await asyncio.sleep(retry_interval), in the rate-limit branch and in the other
SleepFor(rate_limited) == retry_interval

\* while True: retry_count += 1; success, result = await attempt_video_generation()
\* attempt_video_generation calls generate_and_publish(topic, "AI", True)
Attempt ==
  /\ retry.pc = "loop"
  /\ retry.retry_count < MaxAttempts
  /\ retry' = [retry EXCEPT !.pc = "running", !.retry_count = @ + 1]
  /\ run' = [run EXCEPT ![1] = StartedRun(TRUE, TRUE)]
  /\ UNCHANGED <<wrote, clock, hubspot, call>>

\* the attempt returned: if success: return result; else: ... asyncio.sleep
Evaluate ==
  LET rep == run[1].report IN
  /\ retry.pc = "running"
  /\ run[1].pc = "done"
  /\ retry' =
       IF rep.success
         THEN [retry EXCEPT !.pc = "returned", !.result = rep]
         ELSE [retry EXCEPT !.pc = "sleeping",
                 !.rate_limited = Append(@, is_rate_limit_error(rep)),
                 !.waited = Append(@, SleepFor(is_rate_limit_error(rep)))]
  /\ UNCHANGED <<run, wrote, clock, hubspot, call>>

\* asyncio.sleep returns, the loop goes round; the clock has moved on
Wake ==
  /\ retry.pc = "sleeping"
  /\ retry' = [retry EXCEPT !.pc = "loop"]
  /\ clock' = IF clock < MaxClock THEN clock + 1 ELSE clock
  /\ UNCHANGED <<run, wrote, hubspot, call>>

\* the steps of a run whose topic is given by the caller
StepWithTopic(r) ==
  \/ Prompts(r)
  \/ StartClips(r) \/ (\E i \in Clips : FinishClip(r, i)) \/ Join(r)
  \/ TitlePrompt(r) \/ Image(r) \/ VoScript(r) \/ Voiceover(r)
  \/ MusicPrompt(r) \/ Music(r) \/ Compose(r) \/ Merge(r)
  \/ Upload(r) \/ YouTube(r)

InitRetry ==
  /\ run = [r \in Runs |-> IdleRun]
  /\ wrote = {}
  /\ clock = 1
  /\ hubspot \in BOOLEAN
  /\ retry = [RetryOff EXCEPT !.pc = "loop"]
  /\ call = NoCall

NextRetry == Attempt \/ Evaluate \/ Wake \/ StepWithTopic(1)

SpecRetry == InitRetry /\ [][NextRetry]_vars

(* ------- is_rate_limit_error on the characters of str(result) --------- *)
\* the longest text given to the classifier
MaxTextLen == 5
\* the characters the texts are made of
TextChars == {"4", "2", "9", "Q", "U", "o", "t", "a", "x"}

\* str.lower() on one character
LowerChar(c) == CASE c = "Q" -> "q" [] c = "U" -> "u" [] OTHER -> c

\* Lower that leaves the case of the text as it is
LowerNone(text) == text

\* result_str = str(result).lower()
Lower(text) == [k \in 1..Len(text) |-> LowerChar(text[k])]

\* keyword in result_str
Contains(text, kw) ==
  \E k \in 0..(Len(text) - Len(kw)) : SubSeq(text, k + 1, k + Len(kw)) = kw

\* rate_limit_keywords = ["429", "resource_exhausted", "quota", "rate limit",
\*                        "too many requests"]
rate_limit_keywords ==
  << <<"4", "2", "9">>,
     <<"r", "e", "s", "o", "u", "r", "c", "e", "_",
       "e", "x", "h", "a", "u", "s", "t", "e", "d">>,
     <<"q", "u", "o", "t", "a">>,
     <<"r", "a", "t", "e", " ", "l", "i", "m", "i", "t">>,
     <<"t", "o", "o", " ", "m", "a", "n", "y", " ",
       "r", "e", "q", "u", "e", "s", "t", "s">> >>

\* for keyword in rate_limit_keywords: if keyword in result_str: return True
\* return False
RECURSIVE KeywordLoop(_, _)
KeywordLoop(result_str, k) ==
  IF k > Len(rate_limit_keywords) THEN FALSE
  ELSE IF Contains(result_str, rate_limit_keywords[k]) THEN TRUE
  ELSE KeywordLoop(result_str, k + 1)

\* is_rate_limit_error, on the characters of str(result)
IsRateLimitText(text) == KeywordLoop(Lower(text), 1)

\* one more character of str(result)
TypeChar ==
  /\ call.fn = "is_rate_limit_error" /\ call.pc = "text"
  /\ Len(call.text) < MaxTextLen
  /\ \E c \in TextChars : call' = [call EXCEPT !.text = Append(@, c)]
  /\ UNCHANGED <<run, wrote, clock, hubspot, retry>>

\* is_rate_limit_error(result) is called and returns
Classify ==
  /\ call.fn = "is_rate_limit_error" /\ call.pc = "text"
  /\ call' = [call EXCEPT !.pc = "returned",
                          !.result = IsRateLimitText(call.text)]
  /\ UNCHANGED <<run, wrote, clock, hubspot, retry>>

InitClassify ==
  /\ run = [r \in Runs |-> IdleRun]
  /\ wrote = {}
  /\ clock = 1
  /\ hubspot = FALSE
  /\ retry = RetryOff
  /\ call = [fn |-> "is_rate_limit_error", pc |-> "text", text |-> <<>>,
             result |-> FALSE]

NextClassify == TypeChar \/ Classify

SpecClassify == InitClassify /\ [][NextClassify]_vars

(* ---------- generate_video_clip, its retry loop (veo_client.py) ------- *)
\* the largest max_retries a caller passes
MaxMaxRetries == 4
\* wait_time = 2 ** attempt * 30
WaitBase == 30

\* str(e) of what an attempt can raise: the provider's text, the text of an
\* exception made without a message, the two messages raised in the loop
EmptyText == ""
NoVideo == "No video in operation response"
RaisedTexts == ProviderErrors \cup {EmptyText}

\* wait_time = 2 ** attempt * 30
WaitTime(attempt) == 2 ^ attempt * WaitBase

\* generate_video_clip(prompt, duration, output_path, max_retries) is called
ClipCall(max_retries) ==
  [fn |-> "generate_video_clip", pc |-> "loop", max_retries |-> max_retries,
   attempt |-> 0, waits |-> <<>>, operations |-> 0, outcomes |-> <<>>,
   last_error |-> "None",
   result |-> [keys |-> {}, success |-> FALSE, error |-> "None",
               message |-> <<>>]]

\* return {"success": False, "error": ..., "message": ...}
ClipFailure(c, error, message) ==
  [c EXCEPT !.pc = "returned",
            !.result = [keys |-> {"success", "error", "message"},
                        success |-> FALSE, error |-> error,
                        message |-> message]]

\* except Exception as e, on the last attempt: return the failure
ClipFailed(c, text) ==
  ClipFailure(c, text,
              <<"Video generation failed after ", Str(c.max_retries),
                " attempts: ", text>>)

\* except Exception as e: continue while attempts are left, else return
ClipExcept(c, text) ==
  IF c.attempt < c.max_retries - 1
    THEN [c EXCEPT !.pc = "loop", !.attempt = @ + 1, !.last_error = text]
    ELSE ClipFailed(c, text)

\* for attempt in range(max_retries): if attempt > 0: await asyncio.sleep(...)
ClipSleep ==
  /\ call.fn = "generate_video_clip" /\ call.pc = "loop"
  /\ call.attempt < call.max_retries /\ call.attempt > 0
  /\ call' = [call EXCEPT !.pc = "generate",
                          !.waits = Append(@, WaitTime(call.attempt))]
  /\ UNCHANGED <<run, wrote, clock, hubspot, retry>>

\* what one attempt can come to: an exception from generate_videos, the
\* polling, the download or open(); an operation that ends with an error of
\* code 13 or of another code; a response without a video; a video
ClipOutcomes == {"raises", "error_13", "error_other", "no_video", "video"}

\* the attempt goes on to the next one: last_error = ...; continue
ClipContinue(c, text) ==
  [c EXCEPT !.pc = "loop", !.attempt = @ + 1, !.last_error = text]

\* the body of the try block from generate_videos on
ClipTry(c, outcome, text) ==
  CASE outcome = "raises" -> ClipExcept(c, text)
    [] outcome = "error_13" ->
         IF c.attempt < c.max_retries - 1
           THEN ClipContinue(c, "INTERNAL")
           ELSE ClipExcept(c, "Video generation failed: INTERNAL")
    [] outcome = "error_other" ->
         ClipExcept(c, "Video generation failed: INVALID_ARGUMENT")
    [] outcome = "no_video" ->
         IF c.attempt < c.max_retries - 1
           THEN ClipContinue(c, NoVideo)
           ELSE ClipExcept(c, NoVideo)
    [] OTHER ->
         [c EXCEPT !.pc = "returned",
                   !.result = [keys |-> {"success", "video_data",
                                         "output_path", "duration"},
                               success |-> TRUE, error |-> "None",
                               message |-> <<>>]]

\* operation = self.client.models.generate_videos(...), polled to its end
ClipOperation ==
  /\ call.fn = "generate_video_clip"
  /\ \/ call.pc = "generate"
     \/ call.pc = "loop" /\ call.attempt = 0 /\ call.attempt < call.max_retries
  /\ \E outcome \in ClipOutcomes, text \in RaisedTexts :
       call' = ClipTry([call EXCEPT !.operations = @ + 1,
                                    !.outcomes = Append(@, outcome)],
                       outcome, text)
  /\ UNCHANGED <<run, wrote, clock, hubspot, retry>>

\* the loop ended without a return: "error": str(last_error)
ClipExhausted ==
  /\ call.fn = "generate_video_clip" /\ call.pc = "loop"
  /\ call.attempt >= call.max_retries
  /\ call' = ClipFailure(call, call.last_error,
                         <<"Video generation failed after ",
                           Str(call.max_retries), " attempts">>)
  /\ UNCHANGED <<run, wrote, clock, hubspot, retry>>

InitClip ==
  /\ run = [r \in Runs |-> IdleRun]
  /\ wrote = {}
  /\ clock = 1
  /\ hubspot = FALSE
  /\ retry = RetryOff
  /\ \E max_retries \in 0..MaxMaxRetries : call = ClipCall(max_retries)

NextClip == ClipSleep \/ ClipOperation \/ ClipExhausted

SpecClip == InitClip /\ [][NextClip]_vars

(* -------- extract_json_from_response (claude_client.py) --------------- *)
\* replies of the text service, by what the three parsers make of them:
\*   object                       {"a": 1}
\*   object with true             {"a": true}
\*   array                        [1, 2]
\*   object with a raw newline    {"a": "x
\*                                 y"}
\*   dict in single quotes        {'a': 1}
\*   object with a misspelt true  {"a": tru}
\*   object with a missing value  {"a": }
\*   object in doubled braces     {{"a": 1}}
Bodies ==
  { "object", "object with true", "array",
    "object with a raw newline in a string",
    "dict in single quotes",
    "object with a misspelt true", "object with a missing value", "no json here",
    "object in doubled braces" }

\* json.loads(json_str): a control character inside a string, Python
\* literals and malformed text raise JSONDecodeError
StrictLayer(body) ==
  IF body \in {"object", "object with true", "array"}
    THEN "value" ELSE "JSONDecodeError"

\* json.loads(json_str, strict=False) also takes control characters
LenientLayer(body) ==
  IF body \in {"object", "object with true", "array", "object with a raw newline in a string"}
    THEN "value" ELSE "JSONDecodeError"

\* ast.literal_eval(json_str): a Python literal gives its value, a name that
\* is no literal ValueError, text that is no expression SyntaxError, a set or
\* a dict with an unhashable member TypeError
LiteralLayer(body) ==
  CASE body \in {"object", "array", "dict in single quotes"} -> "value"
    [] body \in {"object with true", "object with a misspelt true"} -> "ValueError"
    [] body = "object in doubled braces" -> "TypeError"
    [] OTHER -> "SyntaxError"

\* the reply around the body: nothing, a markdown code block, prose
Wraps == {"bare", "fenced json", "fenced", "prose"}
ReplyText(wrap, body) ==
  CASE wrap = "bare" -> <<body>>
    [] wrap = "fenced json" -> <<"code block json", body, "end of code block">>
    [] wrap = "fenced" -> <<"code block", body, "end of code block">>
    [] OTHER -> <<"Here is the plan: ", body, " Good luck.">>

HasBrackets(piece) == piece \in Bodies \ {"no json here"}

\* re.search of the code block, then of {...} or [...], else the whole text
JsonStr(text) ==
  IF Len(text) = 3 /\ text[1] \in {"code block json", "code block"} THEN <<text[2]>>
  ELSE IF \E k \in 1..Len(text) : HasBrackets(text[k])
    THEN <<text[CHOOSE k \in 1..Len(text) : HasBrackets(text[k])]>>
  ELSE text

\* what a parser makes of json_str; prose around a body is no literal
LayerOutcome(layer, json_str) ==
  IF Len(json_str) = 1
    THEN CASE layer = "strict" -> StrictLayer(json_str[1])
           [] layer = "lenient" -> LenientLayer(json_str[1])
           [] OTHER -> LiteralLayer(json_str[1])
    ELSE IF layer = "literal" THEN "SyntaxError" ELSE "JSONDecodeError"

NoParse == [kind |-> "none", layer |-> "none", exception |-> "none"]

\* the regular expressions: json_str = json_match.group(1).strip()
ExtractCandidate ==
  /\ call.fn = "extract_json_from_response" /\ call.pc = "search"
  /\ call' = [call EXCEPT !.pc = "strict", !.json_str = JsonStr(call.text)]
  /\ UNCHANGED <<run, wrote, clock, hubspot, retry>>

\* try: return parse(json_str); except caught: go on to the next layer
ParseLayer(c0, layer, next, caught) ==
  LET out == LayerOutcome(layer, c0.json_str)
      c == [c0 EXCEPT !.tried = Append(@, layer)]
  IN IF out = "value"
       THEN [c EXCEPT !.pc = "returned",
               !.result = [kind |-> "value", layer |-> layer,
                           exception |-> "none"]]
     ELSE IF out \notin caught
       THEN [c EXCEPT !.pc = "returned",
               !.result = [kind |-> "raise", layer |-> layer,
                           exception |-> out]]
     ELSE IF next = "raise"
       THEN [c EXCEPT !.pc = "returned",
               !.result = [kind |-> "raise", layer |-> layer,
                           exception |-> "ValueError"]]
     ELSE [c EXCEPT !.pc = next]

\* 1. try: return json.loads(json_str); except json.JSONDecodeError
StrictParse ==
  /\ call.fn = "extract_json_from_response" /\ call.pc = "strict"
  /\ call' = ParseLayer(call, "strict", "lenient", {"JSONDecodeError"})
  /\ UNCHANGED <<run, wrote, clock, hubspot, retry>>

\* 2. try: return json.loads(json_str, strict=False); except JSONDecodeError
LenientParse ==
  /\ call.fn = "extract_json_from_response" /\ call.pc = "lenient"
  /\ call' = ParseLayer(call, "lenient", "literal", {"JSONDecodeError"})
  /\ UNCHANGED <<run, wrote, clock, hubspot, retry>>

\* 3. try: return ast.literal_eval(json_str)
\*    except (ValueError, SyntaxError): raise ValueError("Could not parse ...")
LiteralParse ==
  /\ call.fn = "extract_json_from_response" /\ call.pc = "literal"
  /\ call' = ParseLayer(call, "literal", "raise", {"ValueError", "SyntaxError"})
  /\ UNCHANGED <<run, wrote, clock, hubspot, retry>>

InitExtract ==
  /\ run = [r \in Runs |-> IdleRun]
  /\ wrote = {}
  /\ clock = 1
  /\ hubspot = FALSE
  /\ retry = RetryOff
  /\ \E wrap \in Wraps, body \in Bodies :
       call = [fn |-> "extract_json_from_response", pc |-> "search",
               text |-> ReplyText(wrap, body), json_str |-> <<>>,
               tried |-> <<>>, result |-> NoParse]

NextExtract == ExtractCandidate \/ StrictParse \/ LenientParse \/ LiteralParse

SpecExtract == InitExtract /\ [][NextExtract]_vars

(* ------------- GoogleDriveUploader.upload_video, on its own ----------- *)
\* upload_video(video_path, title, description) is called
UploadCall(env, title) ==
  [fn |-> "upload_video", pc |-> "check", env |-> env, title |-> title,
   drive |-> [kind |-> "none", index |-> 0], result |-> NoUpload]

\* if not Path(video_path).exists(): raise FileNotFoundError(...)
UploadCheck ==
  /\ call.fn = "upload_video" /\ call.pc = "check"
  /\ call' = IF call.env.video
               THEN [call EXCEPT !.pc = "find"]
               ELSE [call EXCEPT !.pc = "returned",
                       !.result = UploadFailure(VideoNotFound)]
  /\ UNCHANGED <<run, wrote, clock, hubspot, retry>>

\* for path in google_drive_paths: if path.exists(): ...; break
UploadFind ==
  LET d == FindDrive(call.env.exists, 1) IN
  /\ call.fn = "upload_video" /\ call.pc = "find"
  /\ call' = IF d.kind = "raise"
               THEN [call EXCEPT !.pc = "returned", !.drive = d,
                       !.result = UploadFailure(StrHasNoExists)]
               ELSE [call EXCEPT !.pc = "copy", !.drive = d]
  /\ UNCHANGED <<run, wrote, clock, hubspot, retry>>

\* shutil.copy(video_path, output_path) and the return that follows it
UploadCopy ==
  /\ call.fn = "upload_video" /\ call.pc = "copy"
  /\ call' = [call EXCEPT !.pc = "returned",
                !.result = SaveVideo(call.drive, call.env.copy, call.title)]
  /\ UNCHANGED <<run, wrote, clock, hubspot, retry>>

InitUpload ==
  /\ run = [r \in Runs |-> IdleRun]
  /\ wrote = {}
  /\ clock = 1
  /\ hubspot = FALSE
  /\ retry = RetryOff
  /\ \E env \in UploadEnvs : call = UploadCall(env, <<"topic of the caller">>)

NextUpload == UploadCheck \/ UploadFind \/ UploadCopy

SpecUpload == InitUpload /\ [][NextUpload]_vars

(* ------------------ the HTTP endpoints (api/index.py) ----------------- *)
\* a value of result.get("social_media_urls", ...): None, or a dict given
\* as the set of its <<platform, url>> items
NoneUrls == [none |-> TRUE, items |-> {}]
EmptyDict == [none |-> FALSE, items |-> {}]

\* result.get("social_media_urls", default): the report has no such key
GetSocialMediaUrls(rep, default) ==
  IF "social_media_urls" \in rep.keys
    THEN [none |-> FALSE, items |-> rep.social_media_urls]
    ELSE default

NoResponse ==
  [success |-> FALSE, topic |-> None, final_video_path |-> None,
   social_media_urls |-> NoneUrls, platforms |-> 0, message |-> None]

\* ', '.join(result.get('errors', ['Unknown error'])), from entry k on
RECURSIVE JoinErrors(_, _)
JoinErrors(errors, k) ==
  IF k > Len(errors) THEN <<>>
  ELSE IF k = Len(errors) THEN errors[k]
  ELSE errors[k] \o <<", ">> \o JoinErrors(errors, k + 1)

\* POST /generate-video: the GenerateVideoResponse built from the report
GenerateVideoResponse(rep) ==
  IF rep.success
    THEN [success |-> TRUE, topic |-> rep.topic,
          final_video_path |-> rep.final_video_path,
          social_media_urls |-> GetSocialMediaUrls(rep, NoneUrls),
          platforms |-> Cardinality(GetSocialMediaUrls(rep, EmptyDict).items),
          message |-> <<"Video generated successfully! Uploaded to ",
                        Str(Cardinality(GetSocialMediaUrls(rep, EmptyDict).items)),
                        " platforms">>]
    ELSE [NoResponse EXCEPT
            !.message = <<"Video generation failed: ">> \o JoinErrors(rep.errors, 1)]

\* POST /cron/daily-video: the dictionary returned after the await
DailyVideoResponse(rep) ==
  [success |-> TRUE, topic |-> rep.topic, final_video_path |-> None,
   social_media_urls |-> GetSocialMediaUrls(rep, NoneUrls),
   platforms |-> Cardinality(GetSocialMediaUrls(rep, EmptyDict).items),
   message |-> <<"Daily video published successfully">>]

\* generate_and_publish returned its report to the endpoint
Respond ==
  /\ call.fn \in {"generate_video", "daily_video_cron"}
  /\ call.pc = "awaiting" /\ run[1].pc = "done"
  /\ call' = [call EXCEPT !.pc = "responded",
                !.response = IF call.fn = "generate_video"
                               THEN GenerateVideoResponse(run[1].report)
                               ELSE DailyVideoResponse(run[1].report)]
  /\ UNCHANGED <<run, wrote, clock, hubspot, retry>>

\* a request to /generate-video with any body, or to /cron/daily-video
InitApi ==
  /\ wrote = {}
  /\ clock = 1
  /\ hubspot \in BOOLEAN
  /\ retry = RetryOff
  /\ \/ /\ \E t \in BOOLEAN, p \in BOOLEAN :
            run = [r \in Runs |-> IF r = 1 THEN StartedRun(t, p) ELSE IdleRun]
        /\ call = [fn |-> "generate_video", pc |-> "awaiting",
                   response |-> NoResponse]
     \/ /\ run = [r \in Runs |-> IF r = 1 THEN StartedRun(FALSE, TRUE)
                                         ELSE IdleRun]
        /\ call = [fn |-> "daily_video_cron", pc |-> "awaiting",
                   response |-> NoResponse]

NextApi == Step(1) \/ Respond

SpecApi == InitApi /\ [][NextApi]_vars

(* ------------- compose_final_video on its own (video_composer.py) ------ *)
\* the clip lists a caller may pass: none, one, the clips of a run, and a
\* list that is not in index order
ClipLists ==
  { <<>>, <<ClipPath(1)>>, <<ClipPath(2), ClipPath(1)>>,
    <<ClipPath(1), ClipPath(2), ClipPath(3)>> }

\* the optional files a caller may name
OptionalFiles == {TitleCardPath(0), VoiceoverPath(0), MusicPath(0)}

\* the arguments of one call: every optional path is None or a path
ComposeArgs ==
  { [ clip_paths |-> c, title_card_image_path |-> t,
      output_path |-> FinalVideoPath(0),
      voiceover_audio_path |-> v, music_audio_path |-> m ] :
      c \in ClipLists, t \in {None, TitleCardPath(0)},
      v \in {None, VoiceoverPath(0)}, m \in {None, MusicPath(0)} }

\* the locals of one call of compose_final_video: files is what exists on
\* disk when it is called
ComposeCall(a, env, files) ==
  [fn |-> "compose_final_video", pc |-> "called", args |-> a, env |-> env,
   files |-> files,
   result |-> Composed(FALSE, None, None, <<>>, FALSE, {}, {})]

\* the whole body of compose_final_video, lines 602 to 689
ComposeReturn ==
  /\ call.fn = "compose_final_video" /\ call.pc = "called"
  /\ call' = [call EXCEPT !.pc = "returned",
                !.result = ComposeFinalVideoOn(call.args, call.env, call.files)]
  /\ UNCHANGED <<run, wrote, clock, hubspot, retry>>

InitCompose ==
  /\ run = [r \in Runs |-> IdleRun]
  /\ wrote = {}
  /\ clock = 1
  /\ hubspot = FALSE
  /\ retry = RetryOff
  /\ \E a \in ComposeArgs, env \in ComposeEnvs, opt \in SUBSET OptionalFiles,
        clips_exist \in BOOLEAN :
       call = ComposeCall(a, env,
                opt \cup (IF clips_exist THEN Range(a.clip_paths) ELSE {}))

NextCompose == ComposeReturn

SpecCompose == InitCompose /\ [][NextCompose]_vars

(* ------------- TopicGenerator.generate_batch (topic_generator.py) ------ *)
\* the lists are cut down: the first MaxTypes of the 14 business types, the
\* first MaxProblems of the 10 problems (all titles are distinct), by index
MaxTypes == 2
MaxProblems == 2
MaxCount == 5

BUSINESS_TYPES == 1..MaxTypes
PROBLEMS == 1..MaxProblems

\* key = (concept['business_type'], concept['problem']['title']) of a concept
\* that generate_video_concept can return: both parts from random.choice
ConceptKeys == BUSINESS_TYPES \X PROBLEMS

\* the number of distinct keys, 14 x 10 in the code
NumKeys == Cardinality(ConceptKeys)

\* IsNew that takes every key as unused
AlwaysNew(key, used) == TRUE

\* if key not in used_combinations
IsNew(key, used) == key \notin used

\* generate_batch(count) is called: concepts = [], used_combinations = set()
BatchCall(count) ==
  [fn |-> "generate_batch", pc |-> "loop", count |-> count,
   concepts |-> <<>>, used_combinations |-> {}]

\* one pass of the while body with a concept whose key is new
BatchAdd ==
  /\ call.fn = "generate_batch" /\ call.pc = "loop"
  /\ Len(call.concepts) < call.count
  /\ \E key \in ConceptKeys :
       /\ IsNew(key, call.used_combinations)
       /\ call' = [call EXCEPT !.used_combinations = @ \cup {key},
                               !.concepts = Append(@, key)]
  /\ UNCHANGED <<run, wrote, clock, hubspot, retry>>

\* one pass of the while body with a concept whose key was used: nothing
\* is added and the loop goes round again
BatchSkip ==
  /\ call.fn = "generate_batch" /\ call.pc = "loop"
  /\ Len(call.concepts) < call.count
  /\ \E key \in ConceptKeys : ~IsNew(key, call.used_combinations)
  /\ call' = call
  /\ UNCHANGED <<run, wrote, clock, hubspot, retry>>

\* while len(concepts) < count is false: return concepts
BatchReturn ==
  /\ call.fn = "generate_batch" /\ call.pc = "loop"
  /\ ~(Len(call.concepts) < call.count)
  /\ call' = [call EXCEPT !.pc = "returned"]
  /\ UNCHANGED <<run, wrote, clock, hubspot, retry>>

InitBatch ==
  /\ run = [r \in Runs |-> IdleRun]
  /\ wrote = {}
  /\ clock = 1
  /\ hubspot = FALSE
  /\ retry = RetryOff
  /\ \E count \in 0..MaxCount : call = BatchCall(count)

NextBatch == BatchAdd \/ BatchSkip \/ BatchReturn

\* random.choice gives every key a positive probability in every pass, so a
\* pass with a new key comes as long as there is one
SpecBatch ==
  InitBatch /\ [][NextBatch]_vars /\ WF_vars(BatchAdd) /\ WF_vars(BatchReturn)

(* ============================ the claims ============================== *)
Ok(s, c) == s.results[c] = "ok"
Failed(s, c) == s.results[c] \in {"fail", "raise"}
Last(q) == q[Len(q)]

\* the run returned a report with success = False right after calling c
Aborted(s, c) ==
  /\ s.pc = "done"
  /\ "success" \in s.report.keys /\ ~s.report.success
  /\ s.calls # <<>> /\ Last(s.calls) = c

\* the composition stage: compose_final_video, then the fallback merge_clips
CompositionOk(s) == Ok(s, "compose_final_video") \/ Ok(s, "merge_clips")
CompositionFailed(s) ==
  /\ Failed(s, "compose_final_video")
  /\ Failed(s, "merge_clips") \/ s.clip_paths = <<>>

\* C1: when a mandatory stage fails (prompt generation, clip synthesis, or
\* the composition stage, i.e. compose_final_video and its fallback merge),
\* the run returns success = False and the failing stage's collaborator is
\* the last collaborator the run ever calls.
C1_MandatoryFailureAborts ==
  \A r \in Runs :
    LET s == run[r] IN
    /\ Failed(s, "generate_video_prompts") => Aborted(s, "generate_video_prompts")
    /\ Failed(s, "generate_multi_clip_video")
         => Aborted(s, "generate_multi_clip_video")
    /\ CompositionFailed(s) => Aborted(s, "merge_clips")

\* a run whose compose_final_video and fallback merge both failed has returned
C1_Witness ==
  \E r \in Runs : CompositionFailed(run[r]) /\ run[r].pc = "done"

\* the number of entries of errors that begin with prefix
ErrorsOf(errs, prefix) ==
  Cardinality({k \in 1..Len(errs) : errs[k][1] = prefix})

\* every mandatory stage succeeded, nothing raised, the run returned
OnlyOptionalFailed(s) ==
  /\ s.pc = "done"
  /\ Ok(s, "generate_video_prompts") /\ Ok(s, "generate_multi_clip_video")
  /\ CompositionOk(s)
  /\ \A c \in Collaborators : s.results[c] # "raise"

\* C2: a run in which every mandatory stage succeeds and only optional stages
\* return success = False reports success = True, with None for the artifact
\* of each failed optional stage (in the report, or in the arguments given to
\* compose_final_video) and exactly one error string for each of them.
C2_OptionalFailuresTolerated ==
  \A r \in Runs :
    LET s == run[r] IN
    OnlyOptionalFailed(s) =>
      /\ s.report.success
      /\ Failed(s, "generate_image") =>
           /\ s.report.title_card_path = None
           /\ s.compose_args.title_card_image_path = None
           /\ ErrorsOf(s.report.errors, "Title card: ") = 1
      /\ Failed(s, "generate_voiceover") =>
           /\ s.compose_args.voiceover_audio_path = None
           /\ ErrorsOf(s.report.errors, "Voiceover: ") = 1
      /\ Failed(s, "generate_background_music") =>
           /\ s.compose_args.music_audio_path = None
           /\ ErrorsOf(s.report.errors, "Background music: ") = 1
      /\ Failed(s, "upload_video") =>
           /\ s.report.google_drive_url = None
           /\ ErrorsOf(s.report.errors, "Google Drive upload: ") = 1
      /\ Failed(s, "upload_and_publish_to_youtube") =>
           /\ s.report.youtube_url = None
           /\ ErrorsOf(s.report.errors, "YouTube publishing: ") = 1

\* a run returned success = True although all five optional stages failed
C2_Witness ==
  \E r \in Runs :
    LET s == run[r] IN
    /\ OnlyOptionalFailed(s) /\ s.report.success
    /\ Failed(s, "generate_image") /\ Failed(s, "generate_voiceover")
    /\ Failed(s, "generate_background_music") /\ Failed(s, "upload_video")
    /\ Failed(s, "upload_and_publish_to_youtube")

\* C3 as stated: the report has success = True iff prompt generation, clip
\* synthesis and compose_final_video all returned success.
C3_Original ==
  \A r \in Runs :
    LET s == run[r] IN
    s.pc = "done" =>
      (s.report.success <=>
         /\ Ok(s, "generate_video_prompts")
         /\ Ok(s, "generate_multi_clip_video")
         /\ Ok(s, "compose_final_video"))

\* C3: the report has success = True iff prompt generation and clip synthesis
\* succeeded and the composition stage succeeded, which it does when
\* compose_final_video returned success or, after it failed, the fallback
\* merge_clips did; when both failed the report has success = False.
C3_SuccessIffMandatorySucceeded ==
  \A r \in Runs :
    LET s == run[r] IN
    s.pc = "done" =>
      /\ "success" \in s.report.keys
      /\ s.report.success <=>
           /\ Ok(s, "generate_video_prompts")
           /\ Ok(s, "generate_multi_clip_video")
           /\ CompositionOk(s)
      /\ CompositionFailed(s) => ~s.report.success

\* a run returned success = True after compose_final_video failed
C3_Witness ==
  \E r \in Runs :
    LET s == run[r] IN
    /\ s.pc = "done" /\ s.report.success
    /\ Failed(s, "compose_final_video") /\ Ok(s, "merge_clips")

TopicCallFailed(s) ==
  Failed(s, "research_trending_topics") \/ Failed(s, "select_video_topic")

\* the run is at, or has passed, the call of generate_video_prompts
ReachedPrompts(s) ==
  s.pc = "prompts" \/ \E k \in 1..Len(s.calls) : s.calls[k] = "generate_video_prompts"

AtOrPast(s, c, at) ==
  s.pc = at \/ \E k \in 1..Len(s.calls) : s.calls[k] = c

\* C5: a failure of the text-generation sub-call of an optional stage (the
\* title-card prompt, the voiceover script) is recorded in errors, leaves the
\* stage's artifact None, and the run continues with the next stage.
C5_OptionalSubCallTolerated ==
  \A r \in Runs :
    LET s == run[r] IN
    /\ Failed(s, "generate_title_card_prompt") =>
         /\ s.errors # <<>> /\ s.title_card_path = None
         /\ AtOrPast(s, "generate_voiceover_script", "vo_script")
    /\ Failed(s, "generate_voiceover_script") =>
         /\ s.errors # <<>> /\ s.voiceover_path = None
         /\ AtOrPast(s, "generate_music_prompt", "music_prompt")

\* C6: the collaborators of one run are called in the fixed stage order,
\* beginning with topic research (or prompt generation when the topic is
\* given); each call has returned before the next is made, except that the
\* clip tasks of the clip-synthesis stage run at the same time, and they run
\* only while generate_multi_clip_video is the call in progress.
C6_StagesInOrder ==
  \A r \in Runs :
    LET s == run[r] IN
    /\ \A k \in 1..(Len(s.calls) - 1) : Rank(s.calls[k]) < Rank(s.calls[k + 1])
    /\ s.calls # <<>> =>
         s.calls[1] = IF s.topic THEN "generate_video_prompts"
                      ELSE "research_trending_topics"
    /\ (\E i \in Clips : s.clip[i] = "running") =>
         /\ s.pc = "gather"
         /\ Last(s.calls) = "generate_multi_clip_video"
    /\ \A i \in Clips :
         s.clip[i] # "idle" <=>
           \E k \in 1..Len(s.calls) : s.calls[k] = "generate_multi_clip_video"

\* a run that went through every stage, topic research to YouTube, returned
C6_Witness ==
  \E r \in Runs :
    LET s == run[r] IN
    /\ s.pc = "done" /\ Len(s.calls) = Len(StageOrder) - 1
    /\ Ok(s, "research_trending_topics")
    /\ s.results["upload_and_publish_to_youtube"] # "none"

\* C7: if at least one of the clip sub-calls fails, generate_multi_clip_video
\* returns success = False with no clip_paths key, and generate_and_publish
\* returns success = False without calling any collaborator after it.
C7_ClipFailureFailsStage ==
  \A r \in Runs :
    LET s == run[r] IN
    (s.results["generate_multi_clip_video"] # "none" /\ FailedClips(s) # {}) =>
      /\ ~s.clips_result.success
      /\ "clip_paths" \notin s.clips_result.keys
      /\ s.clips_result.clip_paths = None
      /\ Aborted(s, "generate_multi_clip_video")

\* of three clips only the second failed, and the run returned
C7_Witness ==
  \E r \in Runs :
    /\ run[r].clip = [i \in Clips |-> IF i = 2 THEN "fail" ELSE "ok"]
    /\ run[r].pc = "done"

\* C8: generate_multi_clip_video returns only when every sub-call has
\* finished, whatever the order in which they finish and whether or not one
\* of them failed before the others, and on success clip_paths lists the
\* NumClips paths in the order of the prompts.
C8_JoinWaitsForAll ==
  \A r \in Runs :
    LET s == run[r] IN
    s.results["generate_multi_clip_video"] # "none" =>
      /\ \A i \in Clips : s.clip[i] \in {"ok", "fail"}
      /\ s.clips_result.success =>
           /\ s.clips_result.clip_paths = [i \in Clips |-> ClipPath(i)]
           /\ s.clip_paths = s.clips_result.clip_paths

\* the clips finished in the reverse of the prompt order and the stage returned
C8_Witness ==
  \E r \in Runs :
    /\ run[r].results["generate_multi_clip_video"] = "ok"
    /\ run[r].finished = [k \in Clips |-> NumClips + 1 - k]

\* the paths run r has written
WrittenBy(r) == {w[1] : w \in {x \in wrote : x[2] = r}}

\* C9: no scratch path is written by two writers that execute at the same
\* time: the clip tasks of one run write pairwise distinct paths, and two
\* runs that are in progress together have written no path in common.
C9_NoSharedScratchPath ==
  /\ \A i, j \in Clips : i # j => ClipPath(i) # ClipPath(j)
  /\ \A r1, r2 \in Alive : r1 # r2 => WrittenBy(r1) \cap WrittenBy(r2) = {}

\* C10, the states: every attempt that has returned so far but the successful
\* one was followed by a sleep of retry_interval = 3600 s, rate limit or not;
\* below the cap a new attempt follows; the loop has returned only a result
\* with success = True, the result of the last attempt.
C10_States ==
  /\ retry.pc \in {"loop", "sleeping"} => Len(retry.waited) = retry.retry_count
  /\ retry.pc \in {"running", "returned"} =>
       Len(retry.waited) = retry.retry_count - 1
  /\ Len(retry.rate_limited) = Len(retry.waited)
  /\ \A k \in 1..Len(retry.waited) : retry.waited[k] = 3600
  /\ (retry.pc = "loop" /\ retry.retry_count < MaxAttempts) => ENABLED Attempt
  /\ retry.pc = "returned" =>
       retry.result.success /\ retry.result = run[1].report

\* C10, the steps: a new attempt starts generate_and_publish afresh, with
\* nothing kept of the attempt before; a failed attempt goes to sleep.
C10_Steps ==
  /\ retry'.retry_count # retry.retry_count =>
       /\ retry'.retry_count = retry.retry_count + 1
       /\ run'[1] = StartedRun(TRUE, TRUE)
  /\ (retry.pc = "running" /\ retry'.pc # "running") =>
       /\ run[1].pc = "done"
       /\ retry'.pc = IF run[1].report.success THEN "returned" ELSE "sleeping"
  /\ (retry.pc = "sleeping" /\ retry'.pc # "sleeping") => retry'.pc = "loop"

\* C10: in retry_until_success every failed attempt, rate-limited or not, is
\* followed by a wait of 3600 s and a new attempt that runs the whole
\* pipeline again; the loop returns only the result of a successful attempt.
C10_RetryUntilSuccess == [](C10_States) /\ [][C10_Steps]_vars

\* the loop returned on its second attempt; the first failure was not
\* classified as a rate limit
C10_Witness ==
  /\ retry.pc = "returned" /\ retry.retry_count = 2
  /\ retry.rate_limited = <<FALSE>> /\ retry.waited = <<retry_interval>>

\* the indicator substrings, as the classification rule names them
Indicators ==
  { <<"4", "2", "9">>, <<"q", "u", "o", "t", "a">>,
    <<"r", "a", "t", "e", " ", "l", "i", "m", "i", "t">>,
    <<"r", "e", "s", "o", "u", "r", "c", "e", "_",
      "e", "x", "h", "a", "u", "s", "t", "e", "d">>,
    <<"t", "o", "o", " ", "m", "a", "n", "y", " ",
      "r", "e", "q", "u", "e", "s", "t", "s">> }

\* some stretch of the text, whatever its case, spells an indicator
SpellsIndicator(text) ==
  \E i \in 1..Len(text), j \in 1..Len(text) :
    [k \in 1..(j - i + 1) |-> LowerChar(text[i + k - 1])] \in Indicators

\* C11: is_rate_limit_error returns True exactly when the lower-cased text of
\* the result contains one of the five indicator substrings, so in whatever
\* case the indicator is written, and False when it contains none.
C11_ClassifiesByIndicator ==
  (call.fn = "is_rate_limit_error" /\ call.pc = "returned") =>
    (call.result <=> SpellsIndicator(call.text))

\* a text that writes "quota" in mixed case was classified as a rate limit
C11_Witness ==
  /\ call.fn = "is_rate_limit_error" /\ call.pc = "returned"
  /\ call.text = <<"Q", "U", "o", "t", "a">> /\ call.result

\* a clip task of the attempt failed with a provider error that carries a
\* rate-limit indicator
ClipRateLimited(s) ==
  \E i \in Clips :
    /\ s.clip[i] = "fail"
    /\ Range(s.clip_message[i]) \cap IndicatorFragments # {}

\* C12: when a generate_video_clip task of an attempt fails with a provider
\* error whose text carries a rate-limit indicator, is_rate_limit_error
\* classifies the report of that attempt as rate-limited.
C12_ClipRateLimitDetected ==
  (retry.pc = "sleeping" /\ ClipRateLimited(run[1])) => Last(retry.rate_limited)

\* C13: the retry loop of generate_video_clip does not wait before the first
\* attempt, and the waits before the successive retries are 30 s, 60 s and
\* 120 s, doubling from the 30-second base.
C13_BackoffFromBase ==
  call.fn = "generate_video_clip" =>
    /\ call.operations = 1 => call.waits = <<>>
    /\ \A k \in 1..Len(call.waits) : call.waits[k] = <<30, 60, 120>>[k]

\* C14: for max_retries >= 1, generate_video_clip starts at most max_retries
\* operations and returns a result instead of raising; after max_retries
\* failed attempts the result has success = False and a non-empty error
\* string; a result with success = True comes from an attempt whose operation
\* ended with a generated video.
C14_ClipResultContract ==
  (call.fn = "generate_video_clip" /\ call.max_retries >= 1) =>
    /\ call.operations <= call.max_retries
    /\ call.pc = "returned" =>
         /\ "success" \in call.result.keys
         /\ ~call.result.success =>
              /\ call.operations = call.max_retries
              /\ "error" \in call.result.keys
              /\ call.result.error # ""
         /\ call.result.success => Last(call.outcomes) = "video"

ParseLayers == <<"strict", "lenient", "literal">>

\* C15: extract_json_from_response tries strict JSON, lenient JSON and the
\* literal parse in this order on the one extracted string, returns the value
\* of the first layer that succeeds, and fails only when all three fail,
\* always by raising ValueError.
C15_LayeredParse ==
  call.fn = "extract_json_from_response" =>
    /\ call.tried = SubSeq(ParseLayers, 1, Len(call.tried))
    /\ call.pc = "returned" =>
         /\ \A k \in 1..(Len(call.tried) - 1) :
              LayerOutcome(call.tried[k], call.json_str) # "value"
         /\ call.result.kind = "value" =>
              LayerOutcome(Last(call.tried), call.json_str) = "value"
         /\ call.result.kind = "raise" =>
              /\ call.tried = ParseLayers
              /\ call.result.exception = "ValueError"

WasCalled(s, c) == \E k \in 1..Len(s.calls) : s.calls[k] = c

\* C16: upload_video is called only when publish_immediately is true, and
\* upload_and_publish_to_youtube only when it is true and the HubSpot token
\* is configured, both only after the composition stage succeeded; without
\* publish_immediately neither is called and the report's google_drive_url
\* and youtube_url are None.
C16_PublishGated ==
  \A r \in Runs :
    LET s == run[r] IN
    /\ WasCalled(s, "upload_video") => s.publish /\ CompositionOk(s)
    /\ WasCalled(s, "upload_and_publish_to_youtube") =>
         s.publish /\ hubspot /\ CompositionOk(s)
    /\ (s.pc = "done" /\ s.report.success /\ ~s.publish) =>
         /\ ~WasCalled(s, "upload_video")
         /\ ~WasCalled(s, "upload_and_publish_to_youtube")
         /\ s.report.google_drive_url = None
         /\ s.report.youtube_url = None

\* a run without publish_immediately returned success after the composition
C16_Witness ==
  \E r \in Runs :
    /\ run[r].pc = "done" /\ run[r].report.success /\ ~run[r].publish
    /\ CompositionOk(run[r])

\* no entry of google_drive_paths is a folder on this machine
NoSyncedFolder(env) == \A k \in 1..Len(google_drive_paths) : ~env.exists[k]

\* C17: upload_video returns a result and never raises: a missing video
\* gives success = False with an error string; without a synced folder the
\* video is copied to the local directory and the result has success = True;
\* otherwise it is copied to the folder of the drive and the result has
\* success = True and a url.
C17_UploadNeverRaisesAndFallsBack ==
  (call.fn = "upload_video" /\ call.pc = "returned") =>
    /\ "success" \in call.result.keys
    /\ ~call.env.video =>
         ~call.result.success /\ call.result.error # ""
    /\ (call.env.video /\ call.env.copy /\ NoSyncedFolder(call.env)) =>
         call.result.success
    /\ (call.env.video /\ call.env.copy /\ ~NoSyncedFolder(call.env)) =>
         call.result.success /\ call.result.url # None

Responded(fns) == call.fn \in fns /\ call.pc = "responded"

\* C19: the success field of the response of /generate-video and of
\* /cron/daily-video is true only when the report of generate_and_publish
\* has success = True, and false whenever the report has success = False.
C19_ResponseSuccessIsReportSuccess ==
  Responded({"generate_video", "daily_video_cron"}) =>
    (call.response.success <=> run[1].report.success)

\* the urls the report recorded
PublishedUrls(rep) == {rep.google_drive_url, rep.youtube_url} \ {None}

\* C20: on a successful run the response of /generate-video carries in
\* social_media_urls every url the report recorded, and the number of
\* platforms in its message is the number of platforms published to.
C20_ResponseCarriesUrls ==
  (Responded({"generate_video"}) /\ run[1].report.success) =>
    /\ \A u \in PublishedUrls(run[1].report) :
         \E item \in call.response.social_media_urls.items : item[2] = u
    /\ call.response.platforms = Cardinality(PublishedUrls(run[1].report))


(* ------------------------------- C21 ---------------------------------- *)
\* the call of compose_final_video has returned
Composition == call.fn = "compose_final_video" /\ call.pc = "returned"

\* the segments of the call can be joined: there is at least one, every one
\* of them exists, and ffmpeg joins them when there are several
SegmentsMergeable ==
  LET segs == call.result.segments
  IN /\ Len(segs) > 0
     /\ Range(segs) \subseteq call.files \cup call.result.writes
     /\ Len(segs) > 1 => call.env.merge

\* C21: compose_final_video returns success = true whenever its segments can
\* be merged, whichever of title card, voiceover and music is None or fails
\* in its own processing, and returns success = false only when there are no
\* clips or the merge of the segments fails.
C21_DegradesGracefully ==
  Composition => (call.result.success <=> SegmentsMergeable)

\* a call with a title card whose conversion fails and a voiceover whose mix
\* fails, and no music, that returns success = true
C21_Witness ==
  /\ Composition
  /\ call.args.title_card_image_path \in call.files
  /\ ~call.env.title_conv
  /\ call.args.voiceover_audio_path \in call.files
  /\ ~call.env.mix
  /\ call.args.music_audio_path = None
  /\ call.result.success

(* ------------------------------- C22 ---------------------------------- *)
\* C22: for every call of compose_final_video with an existing music file
\* that returns a video, the music file is an input of the audio mix of the
\* output video, with or without a voiceover.
C22_MusicAlwaysMixed ==
  ( /\ Composition
    /\ call.args.music_audio_path # None
    /\ call.args.music_audio_path \in call.files
    /\ call.result.success )
  => call.args.music_audio_path \in call.result.mix_inputs

(* ------------------------------- C23 ---------------------------------- *)
\* the title card image was given, exists and was converted
TitleConverted ==
  /\ call.args.title_card_image_path # None
  /\ call.args.title_card_image_path \in call.files
  /\ call.env.title_conv

\* C23: the segments are the title-card video first if and only if the image
\* was given, exists and was converted, then the clips in the order of
\* clip_paths, and nothing else; a single segment is copied without a merge.
C23_SegmentList ==
  Composition =>
    LET segs == call.result.segments
        clips == call.args.clip_paths
        lead == IF TitleConverted THEN 1 ELSE 0
    IN /\ Len(segs) = lead + Len(clips)
       /\ TitleConverted => segs[1] = TitleCardVideo
       /\ \A k \in 1..Len(clips) : segs[lead + k] = clips[k]
       /\ Len(segs) = 1 => ~call.result.merge_invoked
       /\ (Len(segs) = 1 /\ call.result.success) =>
            (IF call.args.voiceover_audio_path = None
               THEN call.args.output_path ELSE VideoNoAudio)
              \in call.result.writes

\* a converted title card in front of two clips that are not in index order
C23_Witness ==
  /\ Composition
  /\ TitleConverted
  /\ call.args.clip_paths = <<ClipPath(2), ClipPath(1)>>
  /\ call.result.merge_invoked
  /\ call.result.success

(* ------------------------------- C28 ---------------------------------- *)
\* C28: whenever compose_final_video returns success = true, a file has been
\* written at the returned output_path during the call, also when the
\* voiceover path names no file and when the voiceover mix fails.
C28_OutputWritten ==
  (Composition /\ call.result.success)
  => call.result.output_path \in call.result.writes


(* ------------------------------- C24 ---------------------------------- *)
\* the collaborator whose failed result is appended to errors under prefix
PrefixStage(prefix) ==
  CASE prefix = "Video generation: " -> "generate_multi_clip_video"
    [] prefix = "Title card: " -> "generate_image"
    [] prefix = "Voiceover: " -> "generate_voiceover"
    [] prefix = "Background music: " -> "generate_background_music"
    [] prefix = "Video composition: " -> "compose_final_video"
    [] prefix = "Google Drive upload: " -> "upload_video"
    [] prefix = "YouTube publishing: " -> "upload_and_publish_to_youtube"

\* an entry appended by the except branch is str(e) alone, without a prefix
FromExcept(e) == Len(e) = 1

\* the position in the stage order of the stage that entry k reports
EntryRank(s, k) ==
  IF FromExcept(s.errors[k]) THEN Rank(Last(s.calls))
  ELSE Rank(PrefixStage(s.errors[k][1]))

\* the last entry of errors reports the stage of collaborator c
ReportsStage(s, c) ==
  LET e == Last(s.errors)
  IN IF c \in {"compose_final_video", "merge_clips"}
       THEN e[1] = "Video composition: "
     ELSE IF c = "generate_multi_clip_video" /\ s.results[c] = "fail"
       THEN e[1] = "Video generation: "
     ELSE FromExcept(e)

IsPrefix(p, q) ==
  Len(p) <= Len(q) /\ \A k \in 1..Len(p) : p[k] = q[k]

\* what holds of errors in every state of a run
ErrorsInOrder ==
  \A r \in Runs :
    LET s == run[r] IN
    /\ \A k \in 1..Len(s.errors) :
         /\ FromExcept(s.errors[k]) => k = Len(s.errors) /\ s.pc = "done"
         /\ \A j \in 1..Len(s.errors) : k < j => EntryRank(s, k) < EntryRank(s, j)
    /\ (s.pc = "done" /\ ~s.report.success) =>
         /\ s.report.errors = s.errors
         /\ s.errors # <<>>
         /\ ReportsStage(s, Last(s.calls))

\* C24: every report with success = False has a non-empty errors list; errors
\* only grows during a run, its entries are in stage execution order, and its
\* last entry is the error of the stage that aborted the run.
C24_ErrorsAppendOnly ==
  /\ []ErrorsInOrder
  /\ [][\A r \in Runs : IsPrefix(run[r].errors, run'[r].errors)]_vars

\* a run that recorded the failure of an optional stage and was then aborted
\* by the composition stage
C24_Witness ==
  \E r \in Runs :
    LET s == run[r] IN
    /\ s.pc = "done" /\ ~s.report.success
    /\ Len(s.report.errors) >= 2
    /\ s.report.errors[1][1] = "Title card: "
    /\ Last(s.report.errors)[1] = "Video composition: "
    /\ Last(s.calls) = "merge_clips"


(* ------------------------------- C25 ---------------------------------- *)
\* the positions of collaborator c in the calls of a run
CallsOf(s, c) == {k \in 1..Len(s.calls) : s.calls[k] = c}

\* C25: the fallback merge_clips is invoked at most once per run, only right
\* after compose_final_video returned success = False and only with a
\* non-empty clip list; upload and social publishing are reached only if
\* compose_final_video or the fallback returned success = True; a run that
\* the fallback rescued returns success = True with the composition error
\* still in errors.
C25_FallbackOnce ==
  \A r \in Runs :
    LET s == run[r] IN
    /\ Cardinality(CallsOf(s, "merge_clips")) <= 1
    /\ \A k \in CallsOf(s, "merge_clips") :
         /\ k > 1 /\ s.calls[k - 1] = "compose_final_video"
         /\ s.clip_paths # None /\ Len(s.clip_paths) > 0
    /\ (WasCalled(s, "merge_clips") \/ s.pc = "merge")
         => Failed(s, "compose_final_video")
    /\ ( \/ s.pc \in {"upload", "youtube"}
         \/ WasCalled(s, "upload_video")
         \/ WasCalled(s, "upload_and_publish_to_youtube") )
         => CompositionOk(s)
    /\ (s.pc = "done" /\ Ok(s, "merge_clips")) =>
         /\ s.report.success
         /\ ErrorsOf(s.report.errors, "Video composition: ") = 1

\* a run that the fallback rescued and that went on to upload the video
C25_Witness ==
  \E r \in Runs :
    LET s == run[r] IN
    /\ s.pc = "done" /\ s.report.success
    /\ Failed(s, "compose_final_video") /\ Ok(s, "merge_clips")
    /\ WasCalled(s, "upload_video")
    /\ ErrorsOf(s.report.errors, "Video composition: ") = 1


(* ------------------------------- C26 ---------------------------------- *)
\* C26: generate_and_publish never lets an exception reach its caller: when
\* a collaborator raises, the run returns a report with success = False, the
\* exception text as the last entry of errors, and a message; every returned
\* report has the key success.
C26_NeverRaises ==
  \A r \in Runs :
    LET s == run[r] IN
    /\ s.pc = "done" => "success" \in s.report.keys
    /\ \A c \in Collaborators :
         s.results[c] = "raise" =>
           /\ s.pc = "done" /\ Last(s.calls) = c
           /\ {"success", "errors", "message"} \subseteq s.report.keys
           /\ ~s.report.success
           /\ s.report.errors # <<>>
           /\ FromExcept(Last(s.report.errors))
           /\ s.report.message = <<"Workflow failed: ">> \o Last(s.report.errors)

\* the voiceover script call raised after the title card stage had already
\* recorded a failure
C26_Witness ==
  \E r \in Runs :
    LET s == run[r] IN
    /\ s.results["generate_voiceover_script"] = "raise"
    /\ s.results["generate_image"] = "fail"
    /\ s.pc = "done" /\ ~s.report.success
    /\ Len(s.report.errors) = 2


(* ------------------------------- C27 ---------------------------------- *)
\* C27: in generate_video_clip an operation that completes with an error
\* whose code is not 13 is the last operation of the call: no further
\* generation attempt is started and the call returns success = False.
C27_OnlyInternalRetried ==
  call.fn = "generate_video_clip" =>
    \A k \in 1..Len(call.outcomes) :
      call.outcomes[k] = "error_other" =>
        /\ k = Len(call.outcomes)
        /\ call.pc = "returned" /\ ~call.result.success


(* ------------------------------- C29 ---------------------------------- *)
\* C29: upload_and_publish_to_youtube runs the file upload, the channel
\* lookup and the post creation in this order and stops at the first step
\* that fails; the post is created only after the upload and the lookup
\* succeeded; the result has success = True only if all three succeeded; a
\* post that fails after the upload gives success = False with file_url; and
\* generate_and_publish takes youtube_url only from a result with success.
C29_HubSpotInOrder ==
  \A r \in Runs :
    LET s == run[r]
        y == s.youtube_result
        n == Len(y.steps)
    IN IF ~WasCalled(s, "upload_and_publish_to_youtube")
         THEN y = NoPublish /\ s.youtube_url = None
         ELSE /\ n \in 1..3 /\ y.steps = SubSeq(HubSpotSteps, 1, n)
              /\ Len(y.returned) = n
              /\ \A k \in 1..(n - 1) : y.returned[k]
              /\ n < 3 => ~y.returned[n]
              /\ y.success <=> (n = 3 /\ y.returned[3])
              /\ (n = 3 /\ ~y.returned[3]) => ~y.success /\ y.file_url # None
              /\ s.youtube_url # None => y.success /\ s.youtube_url = y.file_url
              /\ y.success => s.youtube_url = y.file_url

\* the upload and the lookup succeeded and the post failed: the result has
\* the file url and the run reports no youtube_url
C29_Witness ==
  \E r \in Runs :
    LET s == run[r] IN
    /\ s.pc = "done"
    /\ s.youtube_result.steps = HubSpotSteps
    /\ s.youtube_result.returned = <<TRUE, TRUE, FALSE>>
    /\ s.youtube_result.file_url = HubSpotFileUrl
    /\ s.report.success /\ s.report.youtube_url = None


(* ------------------------------- C30 ---------------------------------- *)
\* what holds of a call of generate_batch in every state: a returned list has
\* count concepts with pairwise distinct keys, and a call with more than
\* NumKeys concepts asked for has not returned
BatchSafe ==
  call.fn = "generate_batch" =>
    /\ call.pc = "returned" =>
         /\ Len(call.concepts) = call.count
         /\ \A j, k \in 1..Len(call.concepts) :
              j # k => call.concepts[j] # call.concepts[k]
    /\ call.count > NumKeys => call.pc # "returned"

\* C30: generate_batch(count) returns exactly count concepts whose (business
\* type, problem title) keys are pairwise distinct; under fair random choice
\* it returns for every count up to the number of distinct keys; for a larger
\* count it never returns.
C30_BatchTerminates ==
  /\ []BatchSafe
  /\ (call.fn = "generate_batch" /\ call.count <= NumKeys)
       ~> (call.pc = "returned")

\* a call that asked for every distinct key and has returned them
C30_Witness ==
  /\ call.fn = "generate_batch" /\ call.pc = "returned"
  /\ call.count = NumKeys
  /\ Len(call.concepts) = NumKeys
  /\ call.used_combinations = ConceptKeys

=============================================================================
